---- MODULE Spec2Model ----
(***************************************************************************)
(* scripts/tag_release.py of LANscape UI: normalise a version string       *)
(* (PEP 440 pre-release shorthand -> npm semver), derive the tag, rewrite  *)
(* the version of package.json, then git add / commit / tag / push / push. *)
(*                                                                         *)
(* Strings whose contents matter (versions, tags, commit messages) are     *)
(* sequences of one-character strings, so that the regular expressions     *)
(* and the f-strings are computed character by character.                  *)
(***************************************************************************)
EXTENDS Integers, Sequences, FiniteSets, TLC

VARIABLES sys_argv, pc, raw_version, version, tag, package_json,
          git_calls, repo, stdout, exit_code

vars == <<sys_argv, pc, raw_version, version, tag, package_json,
          git_calls, repo, stdout, exit_code>>

(* ------------------------------ bounds --------------------------------- *)

\* longest numeric part (digits and dots) of a generated version argument
MaxNumLen == 5
\* longest digit run after the pre-release marker of a generated argument
MaxNLen == 1
\* most positional arguments on the command line
MaxArgs == 2
\* most key/value pairs in the text of a generated package.json
MaxKeys == 3

(* ------------------------------ strings -------------------------------- *)

NoString == <<>>

Dot == <<".">>
MarkerA == <<"a">>
MarkerB == <<"b">>
MarkerRC == <<"r", "c">>
AlphaRepl == <<"-", "a", "l", "p", "h", "a", ".">>
BetaRepl == <<"-", "b", "e", "t", "a", ".">>
RcRepl == <<"-", "r", "c", ".">>
DashAlpha == <<"-", "a", "l", "p", "h", "a">>
DashBeta == <<"-", "b", "e", "t", "a">>
DashRc == <<"-", "r", "c">>
PreReleasesPrefix == <<"p", "r", "e", "-", "r", "e", "l", "e", "a", "s", "e", "s", "/">>
ReleasesPrefix == <<"r", "e", "l", "e", "a", "s", "e", "s", "/">>
FinalizePrefix == <<"F", "i", "n", "a", "l", "i", "z", "e", " ",
                    "v", "e", "r", "s", "i", "o", "n", ":", " ">>
HeadRef == <<"H", "E", "A", "D">>
ScriptName == <<"t", "a", "g", "_", "r", "e", "l", "e", "a", "s", "e", ".", "p", "y">>

\* \d of the re module, on the ASCII digits
IsDigit(c) == c \in {"0", "1", "2", "3", "4", "5", "6", "7", "8", "9"}

\* the index after the longest digit run that starts at i (\d+ is greedy, and
\* what follows it in each pattern is never a digit, so it never backtracks)
RECURSIVE SkipDigits(_, _)
SkipDigits(s, i) ==
    IF i <= Len(s) /\ IsDigit(s[i]) THEN SkipDigits(s, i + 1) ELSE i

\* the literal lit occurs in s at index i
HasAt(s, i, lit) ==
    /\ i >= 1
    /\ i + Len(lit) - 1 <= Len(s)
    /\ SubSeq(s, i, i + Len(lit) - 1) = lit

\* $ without re.MULTILINE: at the end, or just before a final newline
AtEnd(s, i) == i = Len(s) + 1 \/ (i = Len(s) /\ s[i] = "\n")

\* ^(\d+\.\d+\.\d+)<marker>(\d+)$ matched against s: whether it matches, the
\* span of group 1 (1 .. g1end) and of group 2 (g2start .. g2end)
Pep440Match(s, marker) ==
    LET e1 == SkipDigits(s, 1)
        e2 == SkipDigits(s, e1 + 1)
        e3 == SkipDigits(s, e2 + 1)
        n0 == e3 + Len(marker)
        n1 == SkipDigits(s, n0)
    IN  [ok |-> /\ e1 > 1 /\ HasAt(s, e1, Dot)
                /\ e2 > e1 + 1 /\ HasAt(s, e2, Dot)
                /\ e3 > e2 + 1 /\ HasAt(s, e3, marker)
                /\ n1 > n0 /\ AtEnd(s, n1),
         g1end |-> e3 - 1, g2start |-> n0, g2end |-> n1 - 1]

\* re.sub(pattern, r'\1<repl>\2', s): the one match (the pattern is anchored at
\* the start) is replaced, what lies after it (a final newline) is kept
re_sub(s, marker, repl) ==
    LET m == Pep440Match(s, marker)
    IN  IF m.ok
        THEN SubSeq(s, 1, m.g1end) \o repl \o SubSeq(s, m.g2start, m.g2end)
                 \o SubSeq(s, m.g2end + 1, Len(s))
        ELSE s

\* the same three substitutions with the patterns not anchored by $
re_sub_prefix(s, marker, repl) ==
    LET e1 == SkipDigits(s, 1)
        e2 == SkipDigits(s, e1 + 1)
        e3 == SkipDigits(s, e2 + 1)
        n0 == e3 + Len(marker)
        n1 == SkipDigits(s, n0)
    IN  IF /\ e1 > 1 /\ HasAt(s, e1, Dot)
           /\ e2 > e1 + 1 /\ HasAt(s, e2, Dot)
           /\ e3 > e2 + 1 /\ HasAt(s, e3, marker)
           /\ n1 > n0
        THEN SubSeq(s, 1, e3 - 1) \o repl \o SubSeq(s, n0, Len(s))
        ELSE s

pep440_to_npm_unanchored(v) ==
    CHOOSE v3 \in {re_sub_prefix(v2, MarkerRC, RcRepl) :
                     v2 \in {re_sub_prefix(v1, MarkerB, BetaRepl) :
                               v1 \in {re_sub_prefix(v, MarkerA, AlphaRepl)}}} : TRUE

\* the rc substitution left out
pep440_to_npm_norc(v) ==
    CHOOSE v2 \in {re_sub(v1, MarkerB, BetaRepl) :
                     v1 \in {re_sub(v, MarkerA, AlphaRepl)}} : TRUE

\* the three assignments of pep440_to_npm, each substitution applied to the
\* value the one before left (v1, v2, v3 are the successive values of version)
pep440_to_npm(v) ==
    CHOOSE v3 \in {re_sub(v2, MarkerRC, RcRepl) :
                     v2 \in {re_sub(v1, MarkerB, BetaRepl) :
                               v1 \in {re_sub(v, MarkerA, AlphaRepl)}}} : TRUE

\* lit is a substring of s
Contains(s, lit) == \E i \in 1..Len(s) : HasAt(s, i, lit)

\* the rc alternative left out of the pattern
is_prerelease_norc(v) ==
    \E i \in 1..Len(v) : HasAt(v, i, DashAlpha) \/ HasAt(v, i, DashBeta)

\* re.search(r'-(alpha|beta|rc)', version)
is_prerelease(v) ==
    \E i \in 1..Len(v) :
        HasAt(v, i, DashAlpha) \/ HasAt(v, i, DashBeta) \/ HasAt(v, i, DashRc)

\* f"pre-releases/{version}" or f"releases/{version}"
tag_for(v) ==
    IF is_prerelease(v) THEN PreReleasesPrefix \o v ELSE ReleasesPrefix \o v

(* ---------------------------- package.json ----------------------------- *)

\* json.dump(..., indent=2)
Indent == 2

\* a dict is a sequence of <<key, value>> pairs with distinct keys, in
\* insertion order
dict_has(d, k) == \E i \in 1..Len(d) : d[i][1] = k

\* d[k] = v: an existing key keeps its place, a new key goes last
dict_set(d, k, v) ==
    IF dict_has(d, k)
    THEN [i \in 1..Len(d) |-> IF d[i][1] = k THEN <<k, v>> ELSE d[i]]
    ELSE Append(d, <<k, v>>)

\* json.load of an object's text: the members are inserted in order, so a
\* repeated key keeps its first place and its last value
RECURSIVE json_load(_)
json_load(pairs) ==
    IF pairs = <<>> THEN <<>>
    ELSE LET p == pairs[Len(pairs)]
         IN  CHOOSE data \in {dict_set(d, p[1], p[2]) :
                                d \in {json_load(SubSeq(pairs, 1, Len(pairs) - 1))}} : TRUE

\* json.dump(data, f, indent=2) followed by f.write('\n')
json_dump(data) ==
    [kind |-> "object", pairs |-> data, indent |-> Indent, newline |-> TRUE]

(* ------------------------------- state --------------------------------- *)

AbsentFile == [kind |-> "absent", pairs |-> <<>>, indent |-> 0, newline |-> FALSE]
\* a file that json.load rejects, or whose document is not an object
InvalidFile == [kind |-> "invalid", pairs |-> <<>>, indent |-> 0, newline |-> FALSE]

V300 == <<"3", ".", "0", ".", "0">>
V300a6 == <<"3", ".", "0", ".", "0", "a", "6">>
V300rc2 == <<"3", ".", "0", ".", "0", "r", "c", "2">>
V300beta1 == <<"3", ".", "0", ".", "0", "-", "b", "e", "t", "a", ".", "1">>
V30a6 == <<"3", ".", "0", "a", "6">>
V299 == <<"2", ".", "9", ".", "9">>

\* the version arguments of the full runs
ReleaseArgs == {V300, V300a6, V300rc2, V300beta1, V30a6}

\* the members a generated package.json is made of
Members == {<<"name", <<"u", "i">>>>, <<"name", <<"x">>>>,
            <<"version", V299>>, <<"private", <<"t">>>>}

SeqsUpTo(S, n) == UNION {[1..k -> S] : k \in 0..n}

ManifestFiles ==
    {AbsentFile, InvalidFile}
        \cup {[kind |-> "object", pairs |-> ps, indent |-> 0, newline |-> FALSE] :
                 ps \in SeqsUpTo(Members, MaxKeys)}

EmptyRepo == [staged |-> FALSE, commits |-> <<>>, tags |-> {},
              remote_head |-> 0, remote_tags |-> {}]

\* the return codes of a git process
ReturnCodes == {0, 1, 128}

Init ==
    /\ sys_argv \in {<<ScriptName>> \o a : a \in SeqsUpTo(ReleaseArgs, MaxArgs)}
    /\ package_json \in ManifestFiles
    /\ pc = "start"
    /\ raw_version = NoString
    /\ version = NoString
    /\ tag = NoString
    /\ git_calls = <<>>
    /\ repo = EmptyRepo
    /\ stdout = <<>>
    /\ exit_code = -1

Line(kind, arg) == [kind |-> kind, arg |-> arg]

(* ------------------------------ actions -------------------------------- *)

\* the usage check written len(sys.argv) < 2
CheckArgsAtLeast ==
    /\ pc = "start"
    /\ IF Len(sys_argv) < 2
       THEN /\ stdout' = stdout \o <<Line("usage", NoString), Line("examples", NoString)>>
            /\ exit_code' = 1
            /\ pc' = "exited"
            /\ UNCHANGED raw_version
       ELSE /\ raw_version' = sys_argv[2]
            /\ pc' = "parsed"
            /\ UNCHANGED <<stdout, exit_code>>
    /\ UNCHANGED <<sys_argv, version, tag, package_json, git_calls, repo>>

\* if len(sys.argv) != 2: usage, sys.exit(1); raw_version = sys.argv[1]
CheckArgs ==
    /\ pc = "start"
    /\ IF Len(sys_argv) # 2
       THEN /\ stdout' = stdout \o <<Line("usage", NoString), Line("examples", NoString)>>
            /\ exit_code' = 1
            /\ pc' = "exited"
            /\ UNCHANGED raw_version
       ELSE /\ raw_version' = sys_argv[2]
            /\ pc' = "parsed"
            /\ UNCHANGED <<stdout, exit_code>>
    /\ UNCHANGED <<sys_argv, version, tag, package_json, git_calls, repo>>

\* version = pep440_to_npm(raw_version), reported when it changed the string
Normalize ==
    /\ pc = "parsed"
    /\ LET converted == pep440_to_npm(raw_version)
       IN  /\ version' = converted
           /\ stdout' = IF raw_version # converted
                        THEN Append(stdout, Line("converted", converted))
                        ELSE stdout
    /\ pc' = "normalized"
    /\ UNCHANGED <<sys_argv, raw_version, tag, package_json, git_calls, repo, exit_code>>

\* the pre-release test and the tag
Classify ==
    /\ pc = "normalized"
    /\ tag' = tag_for(version)
    /\ stdout' = Append(stdout, Line(IF is_prerelease(version) THEN "pre-release"
                                                                ELSE "release", version))
    /\ pc' = "classified"
    /\ UNCHANGED <<sys_argv, raw_version, version, package_json, git_calls, repo, exit_code>>

\* the test for package.json ending with return in place of sys.exit(1)
CheckManifestReturn ==
    /\ pc = "classified"
    /\ IF package_json.kind = "absent"
       THEN /\ stdout' = Append(stdout, Line("not found", NoString))
            /\ exit_code' = 0
            /\ pc' = "exited"
       ELSE /\ pc' = "found"
            /\ UNCHANGED <<stdout, exit_code>>
    /\ UNCHANGED <<sys_argv, raw_version, version, tag, package_json, git_calls, repo>>

\* if not package_json_path.exists(): error, sys.exit(1)
CheckManifest ==
    /\ pc = "classified"
    /\ IF package_json.kind = "absent"
       THEN /\ stdout' = Append(stdout, Line("not found", NoString))
            /\ exit_code' = 1
            /\ pc' = "exited"
       ELSE /\ pc' = "found"
            /\ UNCHANGED <<stdout, exit_code>>
    /\ UNCHANGED <<sys_argv, raw_version, version, tag, package_json, git_calls, repo>>

\* package_data = {'version': version}: the document read is dropped
set_version_only(data, v) == <<<<"version", v>>>>

\* package_data['version'] = version
set_version(data, v) == dict_set(data, "version", v)

\* json.load, the assignment, json.dump and the trailing newline; a document
\* that does not load, or that is no object, raises before the file is opened
\* for writing: the traceback goes to stderr and the status is 1
UpdateManifest ==
    /\ pc = "found"
    /\ stdout' = Append(stdout, Line("updating", version))
    /\ IF package_json.kind = "object"
       THEN /\ package_json' = json_dump(set_version(json_load(package_json.pairs), version))
            /\ pc' = "updated"
            /\ UNCHANGED exit_code
       ELSE /\ exit_code' = 1
            /\ pc' = "exited"
            /\ UNCHANGED package_json
    /\ UNCHANGED <<sys_argv, raw_version, version, tag, git_calls, repo>>

\* run_git with the failure test left out: the run goes on whatever git returns
run_git_unchecked(args, returncode, next, effect) ==
    /\ git_calls' = Append(git_calls, [args |-> args, returncode |-> returncode])
    /\ repo' = IF returncode = 0 THEN effect ELSE repo
    /\ pc' = next
    /\ UNCHANGED <<stdout, exit_code>>

\* run_git with sys.exit(result.returncode)
run_git_exit_rc(args, returncode, next, effect) ==
    /\ git_calls' = Append(git_calls, [args |-> args, returncode |-> returncode])
    /\ repo' = IF returncode = 0 THEN effect ELSE repo
    /\ IF returncode # 0
       THEN /\ stdout' = Append(stdout, Line("git failed", args[1]))
            /\ exit_code' = returncode
            /\ pc' = "exited"
       ELSE /\ pc' = next
            /\ UNCHANGED <<stdout, exit_code>>

\* run_git that puts the repository back as it was found when git fails
run_git_rollback(args, returncode, next, effect) ==
    /\ git_calls' = Append(git_calls, [args |-> args, returncode |-> returncode])
    /\ repo' = IF returncode = 0 THEN effect ELSE EmptyRepo
    /\ IF returncode # 0
       THEN /\ stdout' = Append(stdout, Line("git failed", args[1]))
            /\ exit_code' = 1
            /\ pc' = "exited"
       ELSE /\ pc' = next
            /\ UNCHANGED <<stdout, exit_code>>

\* run_git(args): the git process runs to its end with the given return code,
\* having had its effect on the repository when it returns 0; a non-zero code
\* is reported and ends the run with status 1
run_git(args, returncode, next, effect) ==
    /\ git_calls' = Append(git_calls, [args |-> args, returncode |-> returncode])
    /\ repo' = IF returncode = 0 THEN effect ELSE repo
    /\ IF returncode # 0
       THEN /\ stdout' = Append(stdout, Line("git failed", args[1]))
            /\ exit_code' = 1
            /\ pc' = "exited"
       ELSE /\ pc' = next
            /\ UNCHANGED <<stdout, exit_code>>

\* f'Finalize version: {raw_version}'
commit_message_raw == FinalizePrefix \o raw_version

\* f'Finalize version: {version}'
commit_message == FinalizePrefix \o version

\* run_git(['add', 'package.json'])
GitAdd ==
    /\ pc = "updated"
    /\ \E rc \in ReturnCodes :
           run_git(<<"add", "package.json">>, rc, "added", [repo EXCEPT !.staged = TRUE])
    /\ UNCHANGED <<sys_argv, raw_version, version, tag, package_json>>

\* run_git(['commit', '-m', f'Finalize version: {version}'])
GitCommit ==
    /\ pc = "added"
    /\ \E rc \in ReturnCodes :
           run_git(<<"commit", "-m", commit_message>>, rc, "committed",
                   [repo EXCEPT !.staged = FALSE,
                                !.commits = Append(@, commit_message)])
    /\ UNCHANGED <<sys_argv, raw_version, version, tag, package_json>>

\* run_git(['tag', tag])
GitTag ==
    /\ pc = "committed"
    /\ \E rc \in ReturnCodes :
           run_git(<<"tag", tag>>, rc, "tagged", [repo EXCEPT !.tags = @ \cup {tag}])
    /\ UNCHANGED <<sys_argv, raw_version, version, tag, package_json>>

\* run_git(['push', 'origin', 'HEAD'])
GitPushHead ==
    /\ pc = "tagged"
    /\ \E rc \in ReturnCodes :
           run_git(<<"push", "origin", HeadRef>>, rc, "pushed_head",
                   [repo EXCEPT !.remote_head = Len(repo.commits)])
    /\ UNCHANGED <<sys_argv, raw_version, version, tag, package_json>>

\* run_git(['push', 'origin', tag])
GitPushTag ==
    /\ pc = "pushed_head"
    /\ \E rc \in ReturnCodes :
           run_git(<<"push", "origin", tag>>, rc, "pushed_tag",
                   [repo EXCEPT !.remote_tags = @ \cup {tag}])
    /\ UNCHANGED <<sys_argv, raw_version, version, tag, package_json>>

\* the two closing messages; main returns and the interpreter exits with 0
Finish ==
    /\ pc = "pushed_tag"
    /\ stdout' = stdout \o <<Line("tagged and pushed", tag), Line("will be built", version)>>
    /\ exit_code' = 0
    /\ pc' = "exited"
    /\ UNCHANGED <<sys_argv, raw_version, version, tag, package_json, git_calls, repo>>

Next ==
    \/ CheckArgs
    \/ Normalize
    \/ Classify
    \/ CheckManifest
    \/ UpdateManifest
    \/ GitAdd
    \/ GitCommit
    \/ GitTag
    \/ GitPushHead
    \/ GitPushTag
    \/ Finish

Spec == Init /\ [][Next]_vars

(* -------------- the version handling alone, on many inputs ------------- *)

NumChars == {"3", "0", "."}
NChars == {"6"}
Markers == {<<>>, MarkerA, MarkerB, MarkerRC, <<"r">>, AlphaRepl, BetaRepl, RcRepl}
Tails == {<<>>, <<"\n">>, <<"x">>}

\* a numeric part, a marker, a digit run and a tail, each possibly empty
NormInputs ==
    {num \o mk \o n \o tl : num \in SeqsUpTo(NumChars, MaxNumLen), mk \in Markers,
                            n \in SeqsUpTo(NChars, MaxNLen), tl \in Tails}

\* main up to the test for package.json, which is absent
InitNorm ==
    /\ sys_argv \in {<<ScriptName>>} \cup {<<ScriptName, v>> : v \in NormInputs}
    /\ package_json = AbsentFile
    /\ pc = "start"
    /\ raw_version = NoString
    /\ version = NoString
    /\ tag = NoString
    /\ git_calls = <<>>
    /\ repo = EmptyRepo
    /\ stdout = <<>>
    /\ exit_code = -1

NextNorm ==
    \/ CheckArgs
    \/ Normalize
    \/ Classify
    \/ CheckManifest

SpecNorm == InitNorm /\ [][NextNorm]_vars

(* ------------------------------ properties ----------------------------- *)

NonEmptySeqsUpTo(S, n) == SeqsUpTo(S, n) \ {<<>>}

\* the digit runs the generated arguments can hold before and after the marker
PrefixRuns == NonEmptySeqsUpTo(NumChars \ {"."}, MaxNumLen - 4)
SuffixRuns == NonEmptySeqsUpTo(NChars, MaxNLen)

\* the strings <major>.<minor>.<patch> of digit runs
VersionTriples ==
    {maj \o Dot \o min \o Dot \o pat :
        maj \in PrefixRuns, min \in PrefixRuns, pat \in PrefixRuns}

\* those of them that s starts with
NumericPrefixes(s) ==
    {p \in {SubSeq(s, 1, k) : k \in 1..Len(s)} : p \in VersionTriples}

\* the version has been computed from the one positional argument
Normalized == Len(sys_argv) = 2 /\ pc \notin {"start", "parsed"}
\* the tag has been computed as well
Classified == Normalized /\ pc # "normalized"

\* C1: an argument <major>.<minor>.<patch>a<N> is normalised to
\* <major>.<minor>.<patch>-alpha.<N>, b<N> to -beta.<N> and rc<N> to -rc.<N>,
\* the numeric prefix and N copied unchanged.
C1_ShorthandRewritten ==
    Normalized =>
        \A p \in NumericPrefixes(raw_version), n \in SuffixRuns :
            /\ raw_version = p \o MarkerA \o n => version = p \o AlphaRepl \o n
            /\ raw_version = p \o MarkerB \o n => version = p \o BetaRepl \o n
            /\ raw_version = p \o MarkerRC \o n => version = p \o RcRepl \o n

C1_Witness ==
    /\ pc = "normalized"
    /\ raw_version = <<"3", ".", "0", ".", "0", "r", "c", "6">>
    /\ version = <<"3", ".", "0", ".", "0", "-", "r", "c", ".", "6">>

\* C2: normalisation leaves unchanged every argument that matches none of the
\* three patterns, in particular canonical semver with or without a
\* pre-release segment, and normalising the result again changes nothing.
C2_NoOpAndIdempotent ==
    Normalized =>
        /\ (/\ ~Pep440Match(raw_version, MarkerA).ok
            /\ ~Pep440Match(raw_version, MarkerB).ok
            /\ ~Pep440Match(raw_version, MarkerRC).ok) => version = raw_version
        /\ \A p \in NumericPrefixes(raw_version), n \in SuffixRuns :
               raw_version \in {p, p \o AlphaRepl \o n, p \o BetaRepl \o n,
                                p \o RcRepl \o n} => version = raw_version
        /\ pep440_to_npm(version) = version

C2_Witness ==
    /\ pc = "normalized"
    /\ raw_version = <<"3", ".", "0", ".", "0", "-", "b", "e", "t", "a", ".", "6">>
    /\ version = raw_version

\* C3: the tag is pre-releases/<normalized> exactly when the normalized version
\* contains -alpha, -beta or -rc, and releases/<normalized> otherwise; an
\* argument that normalisation rewrote is a pre-release, an unchanged one
\* without any of the three markers is a release.
C3_TagFromNormalized ==
    Classified =>
        LET marked(v) == Contains(v, DashAlpha) \/ Contains(v, DashBeta) \/ Contains(v, DashRc)
            pre == PreReleasesPrefix \o version
            rel == ReleasesPrefix \o version
        IN  /\ tag \in {pre, rel}
            /\ tag = pre <=> marked(version)
            /\ version # raw_version => tag = pre
            /\ (version = raw_version /\ ~marked(raw_version)) => tag = ReleasesPrefix \o raw_version

C3_Witness ==
    /\ pc = "classified"
    /\ raw_version = <<"3", ".", "0", ".", "0", "r", "c", "6">>
    /\ tag = PreReleasesPrefix \o <<"3", ".", "0", ".", "0", "-", "r", "c", ".", "6">>

GitOrder == <<"add", "commit", "tag", "push", "push">>

\* C4: git add, commit, tag, push HEAD, push <tag> are invoked in this order,
\* each only after the one before returned 0; after a non-zero return no
\* further command is invoked.
C4_GitOrderFailFast ==
    /\ Len(git_calls) <= Len(GitOrder)
    /\ \A i \in 1..Len(git_calls) :
           /\ git_calls[i].args[1] = GitOrder[i]
           /\ i = 4 => git_calls[i].args = <<"push", "origin", HeadRef>>
           /\ i = 5 => git_calls[i].args = <<"push", "origin", tag>>
           /\ i < Len(git_calls) => git_calls[i].returncode = 0
           /\ git_calls[i].returncode # 0 => pc = "exited"

C4_Witness ==
    /\ pc = "exited"
    /\ Len(git_calls) = 2
    /\ git_calls[Len(git_calls)].args[1] = "commit"
    /\ git_calls[Len(git_calls)].returncode # 0

\* C5: with package.json absent the run ends with status 1, no git command is
\* invoked and no package.json is created.
C5_MissingManifest ==
    /\ [](package_json.kind = "absent" =>
             /\ git_calls = <<>>
             /\ repo = EmptyRepo
             /\ pc = "exited" => exit_code = 1)
    /\ [][package_json.kind = "absent" => package_json' = package_json]_vars

C5_Witness ==
    /\ package_json.kind = "absent"
    /\ Len(sys_argv) = 2
    /\ pc = "exited"
    /\ exit_code = 1
    /\ stdout[Len(stdout)].kind = "not found"

Completed == \E i \in 1..Len(stdout) : stdout[i].kind = "tagged and pushed"

\* the places of main in the order it passes them
PcOrder == <<"start", "parsed", "normalized", "classified", "found", "updated", "added",
             "committed", "tagged", "pushed_head", "pushed_tag", "exited">>
Rank(p) == CHOOSE i \in 1..Len(PcOrder) : PcOrder[i] = p

\* C6: every run ends (a run that has not exited has a next step, and every
\* step takes it further through main), with status 0 or 1; the status is 0 exactly when there
\* was one argument, package.json existed and all five git commands returned
\* 0, and only then is 'Tagged and pushed <tag>' printed.
C6_ExitStatus ==
    /\ pc # "exited" => ENABLED Next
    /\ ~ENABLED (Next /\ Rank(pc') <= Rank(pc))
    /\ (IF pc = "exited"
           THEN /\ exit_code \in {0, 1}
                /\ exit_code = 0 <=>
                       /\ Len(sys_argv) = 2
                       /\ package_json.kind # "absent"
                       /\ Len(git_calls) = Len(GitOrder)
                       /\ \A i \in 1..Len(git_calls) : git_calls[i].returncode = 0
                /\ Completed <=> exit_code = 0
                /\ Completed => stdout[Len(stdout) - 1] = Line("tagged and pushed", tag)
           ELSE exit_code = -1 /\ ~Completed)

C6_Witness ==
    /\ pc = "exited"
    /\ exit_code = 1
    /\ Len(git_calls) = Len(GitOrder)
    /\ git_calls[Len(git_calls)].returncode = 128

\* C7: with any number of positional arguments other than one, the run prints
\* the usage message and ends with status 1; nothing is normalised, the
\* manifest is not touched and no git command is invoked.
C7_UsageError ==
    /\ [](Len(sys_argv) # 2 =>
             /\ pc \in {"start", "exited"}
             /\ pc = "exited" =>
                    /\ exit_code = 1
                    /\ stdout = <<Line("usage", NoString), Line("examples", NoString)>>
             /\ raw_version = NoString /\ version = NoString /\ tag = NoString
             /\ git_calls = <<>> /\ repo = EmptyRepo)
    /\ [][Len(sys_argv) # 2 => package_json' = package_json]_vars

C7_Witness ==
    /\ Len(sys_argv) = 3
    /\ package_json.kind = "object"
    /\ pc = "exited"
    /\ exit_code = 1

\* the number of git commands that returned 0
Succeeded == Cardinality({i \in 1..Len(git_calls) : git_calls[i].returncode = 0})

\* C8: nothing is undone on failure: once a git command has been invoked the
\* manifest carries the new version, the effect of every git command that
\* returned 0 stays in place, and only add, commit, tag and push are invoked.
C8_NoCompensation ==
    git_calls # <<>> =>
        /\ package_json.kind = "object"
        /\ \E i \in 1..Len(package_json.pairs) : package_json.pairs[i] = <<"version", version>>
        /\ \A i \in 1..Len(git_calls) :
               /\ git_calls[i].args[1] \in {"add", "commit", "tag", "push"}
               /\ git_calls[i].args[1] = "tag" => git_calls[i].args = <<"tag", tag>>
        /\ Succeeded = 1 => repo.staged
        /\ Succeeded >= 2 => repo.commits = <<FinalizePrefix \o version>>
        /\ Succeeded >= 3 => tag \in repo.tags
        /\ Succeeded >= 4 => repo.remote_head = Len(repo.commits)
        /\ Succeeded = 5 => tag \in repo.remote_tags

C8_Witness ==
    /\ pc = "exited"
    /\ exit_code = 1
    /\ Len(git_calls) = 4
    /\ git_calls[Len(git_calls)].args = <<"push", "origin", HeadRef>>
    /\ git_calls[Len(git_calls)].returncode # 0
    /\ repo.commits # <<>>
    /\ tag \in repo.tags
    /\ package_json.pairs = <<<<"version", version>>>>

\* the members of a document other than version
Others(d) == SelectSeq(d, LAMBDA p : p[1] # "version")

\* C9: the update changes the version key only: the document written has the
\* normalized version under version, where the key was or at the end when
\* there was none, and every other key with its value and in its order as
\* read; no other step writes the manifest.
C9_ManifestFrame ==
    [][package_json' # package_json =>
           LET before == json_load(package_json.pairs)
               after == package_json'.pairs
           IN  /\ pc = "found" /\ pc' = "updated"
               /\ Others(after) = Others(before)
               /\ Len(after) = Len(Others(after)) + 1
               /\ IF dict_has(before, "version")
                  THEN /\ Len(after) = Len(before)
                       /\ \A i \in 1..Len(before) :
                              before[i][1] = "version" => after[i] = <<"version", version>>
                  ELSE after = Append(before, <<"version", version>>)]_vars

C9_Witness ==
    /\ pc = "updated"
    /\ package_json.pairs = <<<<"private", <<"t">>>>,
                              <<"version", <<"3", ".", "0", ".", "0", "-", "a", "l", "p", "h", "a", ".", "6">>>>,
                              <<"name", <<"x">>>>>>

\* C10: the manifest, the commit message and the tag carry the same normalized
\* version, the tag pushed is the tag created, and an argument that was
\* converted appears in none of them.
C10_OneVersion ==
    (Len(sys_argv) = 2 /\ pc \notin {"start", "parsed", "normalized", "classified", "found"}
        /\ package_json.kind = "object") =>
        LET norm == pep440_to_npm(sys_argv[2])
        IN  /\ \E i \in 1..Len(package_json.pairs) : package_json.pairs[i] = <<"version", norm>>
            /\ tag \in {PreReleasesPrefix \o norm, ReleasesPrefix \o norm}
            /\ \A i \in 1..Len(git_calls) :
                   LET args == git_calls[i].args
                   IN  /\ args[1] = "commit" => args = <<"commit", "-m", FinalizePrefix \o norm>>
                       /\ args[1] = "tag" => args = <<"tag", tag>>
                       /\ i = 5 => args[3] = git_calls[3].args[2]
                       /\ norm # sys_argv[2] =>
                              /\ args[1] = "commit" => args[Len(args)] # FinalizePrefix \o sys_argv[2]
                              /\ args[1] = "tag" => args[Len(args)] \notin
                                     {PreReleasesPrefix \o sys_argv[2], ReleasesPrefix \o sys_argv[2]}
            /\ norm # sys_argv[2] =>
                   \A i \in 1..Len(package_json.pairs) : package_json.pairs[i][2] # sys_argv[2]

C10_Witness ==
    /\ pc = "exited"
    /\ exit_code = 0
    /\ raw_version = V300a6
    /\ version # raw_version
    /\ tag \in repo.remote_tags

====
